---------------------------- MODULE Spec2Model ----------------------------
(***************************************************************************)
(* A model of penaltymodel's BinaryQuadraticModel                          *)
(* (src/penaltymodel/classes/binary_quadratic_model.py).                   *)
(*                                                                         *)
(* A Python dict is a TLA+ function whose DOMAIN is the dict's key set.    *)
(* Where the order of iteration over a dict can be observed (the           *)
(* constructor's adjacency loop, a comprehension whose keys collide) the   *)
(* order is an input of the operator and the actions choose it freely.     *)
(*                                                                         *)
(* Biases, offsets and energies are dyadic rationals n / 2^e, kept exact   *)
(* and in lowest terms: the arithmetic of the code (IEEE doubles) on the   *)
(* values where it does not round.                                         *)
(*                                                                         *)
(* Object identity is kept as "alias", the set of the dict-valued           *)
(* attributes that are one Python object in the two model instances of the *)
(* state: a write through either instance is seen through both.            *)
(***************************************************************************)
EXTENDS Integers, Sequences, FiniteSets, TLC

VARIABLES models, alias, last, nwrites

vars == <<models, alias, last, nwrites>>

---------------------------------------------------------------------------
(* Bounds on the inputs the actions draw.                                  *)

NumVars == 2

MaxQuad == 2

MaxWrites == 1

---------------------------------------------------------------------------
(* Numbers: the dyadic rational n / 2^e, e >= 0, in lowest terms.          *)

Dy(n, e) == [n |-> n, e |-> e]

RECURSIVE Pow2(_)
Pow2(k) == IF k = 0 THEN 1 ELSE 2 * Pow2(k - 1)

RECURSIVE Norm(_)
Norm(x) == IF x.e > 0 /\ x.n % 2 = 0 THEN Norm(Dy(x.n \div 2, x.e - 1)) ELSE x

Add(x, y) ==
    LET e == IF x.e > y.e THEN x.e ELSE y.e
    IN  Norm(Dy(x.n * Pow2(e - x.e) + y.n * Pow2(e - y.e), e))

Neg(x) == Dy(0 - x.n, x.e)

Sub(x, y) == Add(x, Neg(y))

Mul(x, y) == Norm(Dy(x.n * y.n, x.e + y.e))

Num(k) == Dy(k, 0)

Zero == Dy(0, 0)

Half == Dy(1, 1)

Quarter == Dy(1, 2)

\* sum(values of the dict d), as Python's sum(itervalues(d)); exact, so the
\* order of the additions does not show.
RECURSIVE SumOver(_, _)
SumOver(d, keys) ==
    IF keys = {} THEN Zero
    ELSE LET k == CHOOSE x \in keys : TRUE
         IN  Add(d[k], SumOver(d, keys \ {k}))

SumValues(d) == SumOver(d, DOMAIN d)

---------------------------------------------------------------------------
(* Dicts.                                                                  *)

EmptyDict == << >>

\* d[k] = val on a dict (insert or overwrite)
Put(d, k, val) == [x \in (DOMAIN d) \cup {k} |-> IF x = k THEN val ELSE d[x]]

\* del d[k]
Del(d, k) == [x \in (DOMAIN d) \ {k} |-> d[x]]

\* every dict with keys among K and values among V
DictsOver(K, V) == UNION {[S -> V] : S \in SUBSET K}

\* the orders in which a dict of key set K may be iterated
OrdersOf(K) ==
    {s \in [1..Cardinality(K) -> K] : \A i, j \in DOMAIN s : s[i] = s[j] => i = j}

\* The dicts a comprehension {key(x): val(x) for x in ...} can build from the
\* (key, value) pairs it produces: a key produced more than once keeps the value
\* produced last, which is any one of its values under some order of iteration.
DictComp(pairs) ==
    LET K == {p[1] : p \in pairs}
    IN  {f \in [K -> {p[2] : p \in pairs}] : \A k \in K : <<k, f[k]>> \in pairs}

---------------------------------------------------------------------------
(* Vartype.                                                                *)

SPIN == "SPIN"

BINARY == "BINARY"

\* what a caller may pass as vartype: the enum members, their names, their
\* value sets, and two values that are none of these
RawVartypes ==
    {"Vartype.SPIN", "'SPIN'", "{-1, 1}", "Vartype.BINARY", "'BINARY'", "{0, 1}",
     "147", "'my made up type'"}

\* isinstance(vartype, str)
IsStr(vartype) == vartype \in {"'SPIN'", "'BINARY'", "'my made up type'"}

\* Vartype[vartype]: the member of that name, KeyError when there is none
VartypeByName(vartype) ==
    CASE vartype = "'SPIN'" -> SPIN
      [] vartype = "'BINARY'" -> BINARY
      [] OTHER -> "KeyError"

\* Vartype(vartype): the member itself, or the member whose value equals
\* vartype; ValueError when there is none
VartypeByValue(vartype) ==
    CASE vartype \in {"Vartype.SPIN", "{-1, 1}"} -> SPIN
      [] vartype \in {"Vartype.BINARY", "{0, 1}"} -> BINARY
      [] OTHER -> "ValueError"

\* The try block with every vartype looked up as a value, a str too.
ResolveVartype_byvalue(vartype) ==
    LET found == VartypeByValue(vartype)
    IN  IF found \in {"ValueError", "KeyError"} \/ found \notin {SPIN, BINARY}
        THEN "TypeError"
        ELSE found

\* The try block that opens __init__ and change_vartype: Vartype[vartype] for a
\* str, Vartype(vartype) otherwise; "TypeError" when the lookup raises KeyError
\* or ValueError, or finds a member that is neither SPIN nor BINARY.
ResolveVartype(vartype) ==
    LET found == IF IsStr(vartype) THEN VartypeByName(vartype)
                 ELSE VartypeByValue(vartype)
    IN  IF found \in {"ValueError", "KeyError"} \/ found \notin {SPIN, BINARY}
        THEN "TypeError"
        ELSE found

---------------------------------------------------------------------------
(* Construction.                                                           *)

Raise(e) == [ok |-> FALSE, err |-> e]

\* The value of an entry adj[u]: a dict neighbour -> bias as the constructor
\* builds it, or a set of neighbours as relabel_variables builds it.
AdjDict(d) == [kind |-> "dict", map |-> d]

AdjSet(s) == [kind |-> "set", elems |-> s]

\* the neighbours an iteration over adj[u] yields
Neighbours(a) == IF a.kind = "dict" THEN DOMAIN a.map ELSE a.elems

\* AdjInsert without the upper-triangular check: an entry already there is
\* overwritten.
AdjInsert_overwrite(adj, u, v, bias) ==
    IF u \in DOMAIN adj
    THEN [ok |-> TRUE, adj |-> [adj EXCEPT ![u] = AdjDict(Put(adj[u].map, v, bias))]]
    ELSE [ok |-> TRUE, adj |-> Put(adj, u, AdjDict(v :> bias))]

\* One half of the loop body: the `if u in adj: ... else: ...` block for (u, v).
AdjInsert(adj, u, v, bias) ==
    IF u \in DOMAIN adj
    THEN IF v \in DOMAIN adj[u].map
         THEN Raise("ValueError")
         ELSE [ok |-> TRUE, adj |-> [adj EXCEPT ![u] = AdjDict(Put(adj[u].map, v, bias))]]
    ELSE [ok |-> TRUE, adj |-> Put(adj, u, AdjDict(v :> bias))]

\* BuildAdj with the second half of the loop body left out: adj[v][u] is never set.
RECURSIVE BuildAdj_oneway(_, _, _, _)
BuildAdj_oneway(quadratic, order, i, adj) ==
    IF i > Len(order) THEN [ok |-> TRUE, adj |-> adj]
    ELSE LET u == order[i][1]
             v == order[i][2]
         IN  IF u = v THEN Raise("ValueError")
             ELSE LET first == AdjInsert(adj, u, v, quadratic[order[i]])
                  IN  IF ~first.ok THEN first
                      ELSE BuildAdj_oneway(quadratic, order, i + 1, first.adj)

\* The adjacency loop over the items of quadratic from the i-th of `order` on.
RECURSIVE BuildAdj(_, _, _, _)
BuildAdj(quadratic, order, i, adj) ==
    IF i > Len(order) THEN [ok |-> TRUE, adj |-> adj]
    ELSE LET u == order[i][1]
             v == order[i][2]
             bias == quadratic[order[i]]
         IN  IF u = v THEN Raise("ValueError")
             ELSE LET first == AdjInsert(adj, u, v, bias)
                  IN  IF ~first.ok THEN first
                      ELSE LET second == AdjInsert(first.adj, v, u, bias)
                           IN  IF ~second.ok THEN second
                               ELSE BuildAdj(quadratic, order, i + 1, second.adj)

\* BinaryQuadraticModel(linear, quadratic, offset, vartype) for dicts linear and
\* quadratic (the isinstance checks pass) whose keys are pairs, iterating
\* quadratic in `order`: the instance built, or the exception raised.
BQM_init(linear, quadratic, offset, vartype, order) ==
    IF ResolveVartype(vartype) = "TypeError" THEN Raise("TypeError")
    ELSE IF ~(\A k \in DOMAIN quadratic : k[1] \in DOMAIN linear /\ k[2] \in DOMAIN linear)
    THEN Raise("ValueError")
    ELSE LET built == BuildAdj(quadratic, order, 1, EmptyDict)
         IN  IF ~built.ok THEN built
             ELSE [ok |-> TRUE,
                   model |-> [live |-> TRUE,
                              linear |-> linear,
                              quadratic |-> quadratic,
                              adj |-> built.adj,
                              offset |-> offset,
                              vartype |-> ResolveVartype(vartype)]]

---------------------------------------------------------------------------
(* Queries and transforms.                                                 *)

\* the variables a key set of quadratic mentions
Endpoints(keys) == {k[1] : k \in keys} \cup {k[2] : k \in keys}

\* sum(linear[v] * sample[v] for v in linear)
RECURSIVE LinearTerms(_, _, _)
LinearTerms(linear, sample, keys) ==
    IF keys = {} THEN Zero
    ELSE LET v == CHOOSE x \in keys : TRUE
         IN  Add(Mul(linear[v], sample[v]), LinearTerms(linear, sample, keys \ {v}))

\* sum(quadratic[(u, v)] * sample[u] * sample[v] for u, v in quadratic)
RECURSIVE QuadraticTerms(_, _, _)
QuadraticTerms(quadratic, sample, keys) ==
    IF keys = {} THEN Zero
    ELSE LET k == CHOOSE x \in keys : TRUE
         IN  Add(Mul(Mul(quadratic[k], sample[k[1]]), sample[k[2]]),
                 QuadraticTerms(quadratic, sample, keys \ {k}))

\* self.energy(sample); sample[v] of a missing v raises KeyError.  en is a
\* number, so `en +=` binds en anew and self.offset is not written.
energy(self, sample) ==
    IF ~((DOMAIN self.linear) \cup Endpoints(DOMAIN self.quadratic) \subseteq DOMAIN sample)
    THEN Raise("KeyError")
    ELSE [ok |-> TRUE,
          value |-> Add(Add(self.offset,
                            LinearTerms(self.linear, sample, DOMAIN self.linear)),
                        QuadraticTerms(self.quadratic, sample, DOMAIN self.quadratic)),
          self |-> self]

\* The loop of _spin_to_binary without `new_linear[v] -= 2. * bias`
RECURSIVE SpinToBinaryLoop_onesided(_, _, _, _)
SpinToBinaryLoop_onesided(quadratic, keys, new_linear, new_quadratic) ==
    IF keys = {} THEN [ok |-> TRUE, linear |-> new_linear, quadratic |-> new_quadratic]
    ELSE LET k == CHOOSE x \in keys : TRUE
             bias == quadratic[k]
         IN  IF bias = Zero
             THEN SpinToBinaryLoop_onesided(quadratic, keys \ {k}, new_linear,
                                            new_quadratic)
             ELSE IF k[1] \notin DOMAIN new_linear THEN Raise("KeyError")
             ELSE SpinToBinaryLoop_onesided(
                      quadratic, keys \ {k},
                      [new_linear EXCEPT ![k[1]] = Sub(@, Mul(Num(2), bias))],
                      Put(new_quadratic, k, Mul(Num(4), bias)))

\* The loop of _spin_to_binary over the quadratic items still in `keys`;
\* new_linear[u] -= ... of a u that is no key of new_linear raises KeyError.
RECURSIVE SpinToBinaryLoop(_, _, _, _)
SpinToBinaryLoop(quadratic, keys, new_linear, new_quadratic) ==
    IF keys = {} THEN [ok |-> TRUE, linear |-> new_linear, quadratic |-> new_quadratic]
    ELSE LET k == CHOOSE x \in keys : TRUE
             bias == quadratic[k]
             two == Mul(Num(2), bias)
         IN  IF bias = Zero
             THEN SpinToBinaryLoop(quadratic, keys \ {k}, new_linear, new_quadratic)
             ELSE IF k[1] \notin DOMAIN new_linear THEN Raise("KeyError")
             ELSE LET lin1 == [new_linear EXCEPT ![k[1]] = Sub(@, two)]
                  IN  IF k[2] \notin DOMAIN lin1 THEN Raise("KeyError")
                      ELSE SpinToBinaryLoop(quadratic, keys \ {k},
                                            [lin1 EXCEPT ![k[2]] = Sub(@, two)],
                                            Put(new_quadratic, k, Mul(Num(4), bias)))

\* _spin_to_binary with the sign of sum(quadratic) in the offset slipped
spin_to_binary_sign(self) ==
    LET looped == SpinToBinaryLoop(self.quadratic, DOMAIN self.quadratic,
                                   [v \in DOMAIN self.linear |-> Mul(Num(2), self.linear[v])],
                                   EmptyDict)
    IN  IF ~looped.ok THEN looped
        ELSE [ok |-> TRUE,
              linear |-> looped.linear,
              quadratic |-> looped.quadratic,
              offset |-> Sub(Sub(self.offset, SumValues(self.quadratic)),
                             SumValues(self.linear)),
              shared |-> {},
              self |-> self]

\* self._spin_to_binary(): (linear, quadratic, offset).  new_linear and
\* new_quadratic are new dicts: the result shares none with self, and the writes
\* of the loop leave self as it is.
spin_to_binary(self) ==
    LET looped == SpinToBinaryLoop(self.quadratic, DOMAIN self.quadratic,
                                   [v \in DOMAIN self.linear |-> Mul(Num(2), self.linear[v])],
                                   EmptyDict)
    IN  IF ~looped.ok THEN looped
        ELSE [ok |-> TRUE,
              linear |-> looped.linear,
              quadratic |-> looped.quadratic,
              offset |-> Sub(Add(self.offset, SumValues(self.quadratic)),
                             SumValues(self.linear)),
              shared |-> {},
              self |-> self]

\* The second loop of _binary_to_spin without the test `if bias != 0.0`
RECURSIVE BinaryToSpinLoop_keepzero(_, _, _, _, _)
BinaryToSpinLoop_keepzero(quadratic, keys, h, J, quadratic_offset) ==
    IF keys = {} THEN [ok |-> TRUE, h |-> h, J |-> J, quadratic_offset |-> quadratic_offset]
    ELSE LET k == CHOOSE x \in keys : TRUE
             bias == quadratic[k]
             quarter == Mul(Quarter, bias)
         IN  IF k[1] \notin DOMAIN h THEN Raise("KeyError")
             ELSE LET h1 == [h EXCEPT ![k[1]] = Add(@, quarter)]
                  IN  IF k[2] \notin DOMAIN h1 THEN Raise("KeyError")
                      ELSE BinaryToSpinLoop_keepzero(quadratic, keys \ {k},
                                                     [h1 EXCEPT ![k[2]] = Add(@, quarter)],
                                                     Put(J, k, quarter),
                                                     Add(quadratic_offset, bias))

\* The second loop of _binary_to_spin; h[u] += ... of a missing u raises KeyError.
RECURSIVE BinaryToSpinLoop(_, _, _, _, _)
BinaryToSpinLoop(quadratic, keys, h, J, quadratic_offset) ==
    IF keys = {} THEN [ok |-> TRUE, h |-> h, J |-> J, quadratic_offset |-> quadratic_offset]
    ELSE LET k == CHOOSE x \in keys : TRUE
             bias == quadratic[k]
             quarter == Mul(Quarter, bias)
             J1 == IF bias # Zero THEN Put(J, k, quarter) ELSE J
         IN  IF k[1] \notin DOMAIN h THEN Raise("KeyError")
             ELSE LET h1 == [h EXCEPT ![k[1]] = Add(@, quarter)]
                  IN  IF k[2] \notin DOMAIN h1 THEN Raise("KeyError")
                      ELSE BinaryToSpinLoop(quadratic, keys \ {k},
                                            [h1 EXCEPT ![k[2]] = Add(@, quarter)],
                                            J1, Add(quadratic_offset, bias))

\* _binary_to_spin with the offset taking half, not a quarter, of the quadratic
\* biases
binary_to_spin_half(self) ==
    LET linear_offset == SumValues(self.linear)
        looped == BinaryToSpinLoop(self.quadratic, DOMAIN self.quadratic,
                                   [u \in DOMAIN self.linear |-> Mul(Half, self.linear[u])],
                                   EmptyDict, Zero)
    IN  IF ~looped.ok THEN looped
        ELSE [ok |-> TRUE,
              linear |-> looped.h,
              quadratic |-> looped.J,
              offset |-> Add(Add(self.offset, Mul(Half, linear_offset)),
                             Mul(Half, looped.quadratic_offset)),
              shared |-> {},
              self |-> self]

\* self._binary_to_spin(): (h, J, offset).  h and J are new dicts.
binary_to_spin(self) ==
    LET linear_offset == SumValues(self.linear)
        looped == BinaryToSpinLoop(self.quadratic, DOMAIN self.quadratic,
                                   [u \in DOMAIN self.linear |-> Mul(Half, self.linear[u])],
                                   EmptyDict, Zero)
    IN  IF ~looped.ok THEN looped
        ELSE [ok |-> TRUE,
              linear |-> looped.h,
              quadratic |-> looped.J,
              offset |-> Add(Add(self.offset, Mul(Half, linear_offset)),
                             Mul(Quarter, looped.quadratic_offset)),
              shared |-> {},
              self |-> self]

\* self.as_ising(): (h, J, offset); of a SPIN model, h and J are the dicts of
\* self themselves.
as_ising(self) ==
    IF self.vartype = SPIN
    THEN [ok |-> TRUE, linear |-> self.linear, quadratic |-> self.quadratic,
          offset |-> self.offset, shared |-> {"linear", "quadratic"}, self |-> self]
    ELSE binary_to_spin(self)

\* {(v, v): bias for v, bias in linear}
SelfPairs(linear) == [k \in {<<v, v>> : v \in DOMAIN linear} |-> linear[k[1]]]

\* d.update(e), and equally inserting the items of e into d one by one
Update(d, e) == [k \in (DOMAIN d) \cup (DOMAIN e) |-> IF k \in DOMAIN e THEN e[k] ELSE d[k]]

\* as_qubo that, for a BINARY model, fills self.quadratic itself and not a new
\* dict
as_qubo_inplace(self) ==
    IF self.vartype = BINARY
    THEN LET qubo == Update(self.quadratic, SelfPairs(self.linear))
         IN  [ok |-> TRUE, qubo |-> qubo, offset |-> self.offset,
              self |-> [self EXCEPT !.quadratic = qubo]]
    ELSE LET converted == spin_to_binary(self)
         IN  IF ~converted.ok THEN converted
             ELSE [ok |-> TRUE,
                   qubo |-> Update(converted.quadratic, SelfPairs(converted.linear)),
                   offset |-> converted.offset,
                   self |-> converted.self]

\* as_qubo that does not fold the converted linear biases into the result
as_qubo_nofold(self) ==
    IF self.vartype = BINARY
    THEN [ok |-> TRUE, qubo |-> Update(SelfPairs(self.linear), self.quadratic),
          offset |-> self.offset, self |-> self]
    ELSE LET converted == spin_to_binary(self)
         IN  IF ~converted.ok THEN converted
             ELSE [ok |-> TRUE, qubo |-> converted.quadratic,
                   offset |-> converted.offset, self |-> converted.self]

\* self.as_qubo(): (Q, offset).  Of a BINARY model, qubo is a new dict; of a SPIN
\* model, the dict updated is the quadratic that _spin_to_binary returned, so
\* self.quadratic is written if it is that dict.
as_qubo(self) ==
    IF self.vartype = BINARY
    THEN [ok |-> TRUE, qubo |-> Update(SelfPairs(self.linear), self.quadratic),
          offset |-> self.offset, self |-> self]
    ELSE LET converted == spin_to_binary(self)
         IN  IF ~converted.ok THEN converted
             ELSE LET quadratic == Update(converted.quadratic,
                                          SelfPairs(converted.linear))
                  IN  [ok |-> TRUE,
                       qubo |-> quadratic,
                       offset |-> converted.offset,
                       self |-> IF "quadratic" \in converted.shared
                                THEN [converted.self EXCEPT !.quadratic = quadratic]
                                ELSE converted.self]

\* self == model
eq(self, model) ==
    IF self.vartype = model.vartype
    THEN /\ self.linear = model.linear
         /\ self.quadratic = model.quadratic
         /\ self.offset = model.offset
    ELSE FALSE

\* len(self)
bqm_len(self) == Cardinality(DOMAIN self.linear)

---------------------------------------------------------------------------
(* Relabeling, copy and change of vartype.                                 *)

\* a mapping target that is not hashable (a list)
Unhashable == 0

\* every variable self mentions: each is looked up in mapping
Mentioned(self) ==
    (DOMAIN self.linear) \cup Endpoints(DOMAIN self.quadratic) \cup (DOMAIN self.adj)
        \cup UNION {Neighbours(self.adj[u]) : u \in DOMAIN self.adj}

\* relabel_variables that checks the length of new_quadratic, not of new_linear
relabel_variables_lenquadratic(self, mapping) ==
    IF \E v \in Mentioned(self) : v \notin DOMAIN mapping \/ mapping[v] = Unhashable
    THEN {Raise("ValueError")}
    ELSE {IF Cardinality(DOMAIN new_quadratic) # Cardinality(DOMAIN self.quadratic)
          THEN Raise("ValueError")
          ELSE [ok |-> TRUE,
                model |-> [self EXCEPT !.linear = new_linear,
                                       !.quadratic = new_quadratic,
                                       !.adj = new_adj]] :
             new_linear \in
                 DictComp({<<mapping[v], self.linear[v]>> : v \in DOMAIN self.linear}),
             new_quadratic \in
                 DictComp({<< <<mapping[k[1]], mapping[k[2]]>>, self.quadratic[k] >> :
                              k \in DOMAIN self.quadratic}),
             new_adj \in
                 DictComp({<<mapping[u],
                             AdjSet({mapping[v] : v \in Neighbours(self.adj[u])})>> :
                              u \in DOMAIN self.adj})}

\* relabel_variables without the check of len(new_linear)
relabel_variables_nolen(self, mapping) ==
    IF \E v \in Mentioned(self) : v \notin DOMAIN mapping \/ mapping[v] = Unhashable
    THEN {Raise("ValueError")}
    ELSE {[ok |-> TRUE,
           model |-> [self EXCEPT !.linear = new_linear, !.quadratic = new_quadratic,
                                  !.adj = new_adj]] :
             new_linear \in
                 DictComp({<<mapping[v], self.linear[v]>> : v \in DOMAIN self.linear}),
             new_quadratic \in
                 DictComp({<< <<mapping[k[1]], mapping[k[2]]>>, self.quadratic[k] >> :
                              k \in DOMAIN self.quadratic}),
             new_adj \in
                 DictComp({<<mapping[u],
                             AdjSet({mapping[v] : v \in Neighbours(self.adj[u])})>> :
                              u \in DOMAIN self.adj})}

\* relabel_variables that leaves linear under the old labels
relabel_variables_linear(self, mapping) ==
    IF \E v \in Mentioned(self) : v \notin DOMAIN mapping \/ mapping[v] = Unhashable
    THEN {Raise("ValueError")}
    ELSE {IF Cardinality({mapping[v] : v \in DOMAIN self.linear})
                 # Cardinality(DOMAIN self.linear)
          THEN Raise("ValueError")
          ELSE [ok |-> TRUE,
                model |-> [self EXCEPT !.quadratic = new_quadratic, !.adj = new_adj]] :
             new_quadratic \in
                 DictComp({<< <<mapping[k[1]], mapping[k[2]]>>, self.quadratic[k] >> :
                              k \in DOMAIN self.quadratic}),
             new_adj \in
                 DictComp({<<mapping[u],
                             AdjSet({mapping[v] : v \in Neighbours(self.adj[u])})>> :
                              u \in DOMAIN self.adj})}

\* self.relabel_variables(mapping): the outcomes it can have, each the exception
\* raised or self as it is left.
relabel_variables(self, mapping) ==
    IF \E v \in Mentioned(self) : v \notin DOMAIN mapping \/ mapping[v] = Unhashable
    THEN {Raise("ValueError")}
    ELSE LET new_linears ==
                 DictComp({<<mapping[v], self.linear[v]>> : v \in DOMAIN self.linear})
             new_quadratics ==
                 DictComp({<< <<mapping[k[1]], mapping[k[2]]>>, self.quadratic[k] >> :
                              k \in DOMAIN self.quadratic})
             new_adjs ==
                 DictComp({<<mapping[u],
                             AdjSet({mapping[v] : v \in Neighbours(self.adj[u])})>> :
                              u \in DOMAIN self.adj})
         IN  {IF Cardinality(DOMAIN new_linear) # Cardinality(DOMAIN self.linear)
              THEN Raise("ValueError")
              ELSE [ok |-> TRUE,
                    model |-> [self EXCEPT !.linear = new_linear,
                                           !.quadratic = new_quadratic,
                                           !.adj = new_adj]] :
                 new_linear \in new_linears,
                 new_quadratic \in new_quadratics,
                 new_adj \in new_adjs}

\* the enum member a model holds, as the vartype argument it is passed as
Member(vartype) == IF vartype = SPIN THEN "Vartype.SPIN" ELSE "Vartype.BINARY"

\* The new instance a method returns, with the attributes of it that are the
\* very objects self holds under the same name, and self as the call leaves it.
Returned(built, shared, self) ==
    IF ~built.ok THEN built
    ELSE [ok |-> TRUE, model |-> built.model, shared |-> shared, self |-> self]

\* self after the call of a method with outcome r: nothing is written before a
\* raise
After(self, r) == IF r.ok THEN r.self ELSE self

\* the order in which a dict made from the items of another, iterated in `order`,
\* is iterated itself
OrderIn(order, d) == SelectSeq(order, LAMBDA k : k \in DOMAIN d)

\* copy that hands self.linear and self.quadratic themselves to the constructor
copy_shallow(self, order) ==
    Returned(BQM_init(self.linear, self.quadratic, self.offset, Member(self.vartype),
                      order),
             {"linear", "quadratic"}, self)

\* self.copy(): linear.copy() and quadratic.copy() are new dicts and the
\* constructor builds a new adj, so the copy shares no attribute with self.
copy(self, order) ==
    Returned(BQM_init(self.linear, self.quadratic, self.offset, Member(self.vartype),
                      order),
             {}, self)

\* self.change_vartype(vartype), self.quadratic being iterated in `order`.  The
\* new instance holds the very dicts the transform returned.
change_vartype(self, vartype, order) ==
    IF ResolveVartype(vartype) = "TypeError" THEN Raise("TypeError")
    ELSE IF ResolveVartype(vartype) = self.vartype THEN copy(self, order)
    ELSE IF self.vartype = SPIN /\ ResolveVartype(vartype) = BINARY
    THEN LET t == spin_to_binary(self)
         IN  IF ~t.ok THEN t
             ELSE Returned(BQM_init(t.linear, t.quadratic, t.offset, "Vartype.BINARY",
                                    OrderIn(order, t.quadratic)),
                           t.shared, t.self)
    ELSE LET t == binary_to_spin(self)
         IN  IF ~t.ok THEN t
             ELSE Returned(BQM_init(t.linear, t.quadratic, t.offset, "Vartype.SPIN",
                                    OrderIn(order, t.quadratic)),
                           t.shared, t.self)

---------------------------------------------------------------------------
(* The inputs.                                                             *)

Labels == 1..NumVars

\* 1, -1/2
LinearBiases == {Dy(1, 0), Dy(-1, 1)}

\* 0, 3/2
QuadraticBiases == {Dy(0, 0), Dy(3, 1)}

\* 1/4
Offsets == {Dy(1, 2)}

Linears == DictsOver(Labels, LinearBiases)

Quadratics ==
    UNION {[K -> QuadraticBiases] :
              K \in {S \in SUBSET (Labels \X Labels) : Cardinality(S) <= MaxQuad}}

Mappings == DictsOver(Labels, Labels \cup {Unhashable})

SampleValues == {Num(-1), Num(0), Num(1)}

Samples == DictsOver(Labels, SampleValues)

---------------------------------------------------------------------------
(* The state: two names, m and n, each bound to an instance or to none;    *)
(* what the two instances share (see Returned); the call that has just     *)
(* returned or raised ("none" before the first, "idle" between calls); the *)
(* number of direct writes to an instance's dicts so far.                  *)

Slots == {"m", "n"}

Other(s) == IF s = "m" THEN "n" ELSE "m"

NoModel == [live |-> FALSE]

Init ==
    /\ models = [s \in Slots |-> NoModel]
    /\ alias = {}
    /\ last = [op |-> "none"]
    /\ nwrites = 0

\* m = BinaryQuadraticModel(linear, quadratic, offset, vartype), the first call,
\* with any of the outcomes that the orders of iteration over quadratic give
Construct ==
    /\ last.op = "none"
    /\ \E linear \in Linears, quadratic \in Quadratics, offset \in Offsets,
          vartype \in RawVartypes :
         \E r \in {BQM_init(linear, quadratic, offset, vartype, order) :
                      order \in OrdersOf(DOMAIN quadratic)} :
                /\ models' = IF r.ok THEN [models EXCEPT !["m"] = r.model] ELSE models
                /\ last' = [op |-> "init", linear |-> linear, quadratic |-> quadratic,
                            offset |-> offset, vartype |-> vartype, ok |-> r.ok,
                            err |-> IF r.ok THEN "none" ELSE r.err]
    /\ UNCHANGED <<alias, nwrites>>

\* The models once the instance of s is as the call left it: what was written
\* to a dict of it shows through every name that holds that dict.
Effected(s, after) ==
    [t \in Slots |->
        IF t = s THEN after
        ELSE IF ~models[t].live THEN models[t]
        ELSE [models[t] EXCEPT
                 !.linear = IF "linear" \in alias THEN after.linear ELSE @,
                 !.quadratic = IF "quadratic" \in alias THEN after.quadratic ELSE @,
                 !.adj = IF "adj" \in alias THEN after.adj ELSE @]]

\* n = <the instance r.model that a method of s returned>
Bind(s, r) ==
    /\ models' = IF r.ok
                 THEN [Effected(s, After(models[s], r)) EXCEPT !["n"] = r.model]
                 ELSE Effected(s, After(models[s], r))
    /\ alias' = IF ~r.ok THEN alias
                ELSE IF s = "n" THEN alias \cap r.shared ELSE r.shared

\* n = s.copy()
Copy(s) ==
    /\ last.op = "idle"
    /\ models[s].live
    /\ \E r \in {copy(models[s], order) :
                   order \in OrdersOf(DOMAIN models[s].quadratic)} :
          /\ Bind(s, r)
          /\ last' = [op |-> "copy", self |-> s, ok |-> r.ok,
                      after |-> After(models[s], r)]
    /\ UNCHANGED nwrites

\* n = s.change_vartype(vartype)
ChangeVartype(s) ==
    /\ last.op = "idle"
    /\ models[s].live
    /\ \E vartype \in RawVartypes :
          \E r \in {change_vartype(models[s], vartype, order) :
                      order \in OrdersOf(DOMAIN models[s].quadratic)} :
             /\ Bind(s, r)
             /\ last' = [op |-> "change_vartype", self |-> s, vartype |-> vartype,
                         ok |-> r.ok, err |-> IF r.ok THEN "none" ELSE r.err,
                         after |-> After(models[s], r)]
    /\ UNCHANGED nwrites

\* s.relabel_variables(mapping): on success the three attributes of the instance
\* are bound to new objects.
Relabel(s) ==
    /\ last.op = "idle"
    /\ models[s].live
    /\ \E mapping \in Mappings :
          \E r \in relabel_variables(models[s], mapping) :
             /\ models' = IF r.ok THEN [models EXCEPT ![s] = r.model] ELSE models
             /\ alias' = IF r.ok THEN {} ELSE alias
             /\ last' = [op |-> "relabel_variables", self |-> s, mapping |-> mapping,
                         ok |-> r.ok]
    /\ UNCHANGED nwrites

\* s.as_ising()
AsIsing(s) ==
    /\ last.op = "idle"
    /\ models[s].live
    /\ \E r \in {as_ising(models[s])} :
          /\ models' = Effected(s, After(models[s], r))
          /\ last' = [op |-> "as_ising", self |-> s, ret |-> r,
                      after |-> After(models[s], r)]
    /\ UNCHANGED <<alias, nwrites>>

\* s.as_qubo()
AsQubo(s) ==
    /\ last.op = "idle"
    /\ models[s].live
    /\ \E r \in {as_qubo(models[s])} :
          /\ models' = Effected(s, After(models[s], r))
          /\ last' = [op |-> "as_qubo", self |-> s, ret |-> r,
                      after |-> After(models[s], r)]
    /\ UNCHANGED <<alias, nwrites>>

\* s.energy(sample)
Energy(s) ==
    /\ last.op = "idle"
    /\ models[s].live
    /\ \E sample \in Samples :
          \E r \in {energy(models[s], sample)} :
             /\ models' = Effected(s, After(models[s], r))
             /\ last' = [op |-> "energy", self |-> s, ret |-> r,
                         after |-> After(models[s], r)]
    /\ UNCHANGED <<alias, nwrites>>

\* The models after the dict s.<attr> has become d: the write shows through every
\* name whose attr is that object.
Written(s, attr, d) ==
    [t \in Slots |->
        IF t = s \/ (models[t].live /\ attr \in alias)
        THEN IF attr = "linear" THEN [models[t] EXCEPT !.linear = d]
             ELSE [models[t] EXCEPT !.quadratic = d]
        ELSE models[t]]

\* s.linear[v] = bias, or s.quadratic[(u, v)] = bias, by the caller
SetItem(s) ==
    /\ last.op = "idle"
    /\ models[s].live
    /\ nwrites < MaxWrites
    /\ \/ \E v \in Labels, bias \in LinearBiases :
             models' = Written(s, "linear", Put(models[s].linear, v, bias))
       \/ \E k \in Labels \X Labels, bias \in QuadraticBiases :
             models' = Written(s, "quadratic", Put(models[s].quadratic, k, bias))
    /\ last' = [op |-> "setitem", self |-> s]
    /\ nwrites' = nwrites + 1
    /\ UNCHANGED alias

\* del s.linear[v], or del s.quadratic[(u, v)], by the caller
DelItem(s) ==
    /\ last.op = "idle"
    /\ models[s].live
    /\ nwrites < MaxWrites
    /\ \/ \E v \in DOMAIN models[s].linear :
             models' = Written(s, "linear", Del(models[s].linear, v))
       \/ \E k \in DOMAIN models[s].quadratic :
             models' = Written(s, "quadratic", Del(models[s].quadratic, k))
    /\ last' = [op |-> "delitem", self |-> s]
    /\ nwrites' = nwrites + 1
    /\ UNCHANGED alias

\* the caller takes the result of the call; the next call can start
Return ==
    /\ last.op \notin {"none", "idle"}
    /\ last' = [op |-> "idle"]
    /\ UNCHANGED <<models, alias, nwrites>>

\* The methods of the class, called in any order on either instance.
Next ==
    \/ Construct
    \/ Return
    \/ \E s \in Slots :
          \/ Copy(s)
          \/ ChangeVartype(s)
          \/ Relabel(s)
          \/ AsIsing(s)
          \/ AsQubo(s)
          \/ Energy(s)

Spec == Init /\ [][Next]_vars

\* Construction alone.
NextInit == Construct \/ Return

SpecInit == Init /\ [][NextInit]_vars

\* Construction, then conversions and queries: no instance is changed.
NextConvert ==
    \/ Construct
    \/ Return
    \/ \E s \in Slots :
          \/ ChangeVartype(s)
          \/ AsIsing(s)
          \/ AsQubo(s)

SpecConvert == Init /\ [][NextConvert]_vars

\* Construction, then relabelings of the instance.
NextRelabel == Construct \/ Return \/ Relabel("m")

SpecRelabel == Init /\ [][NextRelabel]_vars

\* The methods that return or change an instance, with direct writes to the
\* dicts of the instances.
NextWrites ==
    \/ Construct
    \/ Return
    \/ \E s \in Slots :
          \/ Copy(s)
          \/ ChangeVartype(s)
          \/ Relabel(s)
          \/ SetItem(s)
          \/ DelItem(s)

SpecWrites == Init /\ [][NextWrites]_vars

\* The methods that return or change an instance.
NextDerive ==
    \/ Construct
    \/ Return
    \/ \E s \in Slots :
          \/ Copy(s)
          \/ ChangeVartype(s)
          \/ Relabel(s)

SpecDerive == Init /\ [][NextDerive]_vars

---------------------------------------------------------------------------
(* What the claims speak of.                                               *)

\* adj is exactly the symmetric closure of quadratic: adj[u][v] and adj[v][u]
\* are the bias of every key (u, v), and adj has no other entry.
AdjIsClosure(model) ==
    /\ \A k \in DOMAIN model.quadratic :
          /\ {k[1], k[2]} \subseteq DOMAIN model.adj
          /\ model.adj[k[1]].kind = "dict"
          /\ model.adj[k[2]].kind = "dict"
          /\ k[2] \in DOMAIN model.adj[k[1]].map
          /\ k[1] \in DOMAIN model.adj[k[2]].map
          /\ model.adj[k[1]].map[k[2]] = model.quadratic[k]
          /\ model.adj[k[2]].map[k[1]] = model.quadratic[k]
    /\ \A a \in DOMAIN model.adj :
          \A b \in Neighbours(model.adj[a]) :
             <<a, b>> \in DOMAIN model.quadratic \/ <<b, a>> \in DOMAIN model.quadratic

\* some key of quadratic names a variable that linear lacks, is a self-loop, or
\* is there together with its reverse
Malformed(linear, quadratic) ==
    \E k \in DOMAIN quadratic :
       \/ k[1] \notin DOMAIN linear
       \/ k[2] \notin DOMAIN linear
       \/ k[1] = k[2]
       \/ <<k[2], k[1]>> \in DOMAIN quadratic

\* the 0/1 assignments and the -1/+1 assignments of a model's variables
BinarySamples(model) == [DOMAIN model.linear -> {Num(0), Num(1)}]

SpinSamples(model) == [DOMAIN model.linear -> {Num(-1), Num(1)}]

\* s_v = 2 * x_v - 1
SpinOf(x) == [v \in DOMAIN x |-> Sub(Mul(Num(2), x[v]), Num(1))]

\* x_v = (s_v + 1) / 2
BinaryOf(sp) == [v \in DOMAIN sp |-> Mul(Half, Add(sp[v], Num(1)))]

\* the BINARY model b and the SPIN model sp have the same energy at every
\* assignment
SameEnergy(b, sp) ==
    /\ DOMAIN b.linear = DOMAIN sp.linear
    /\ \A x \in BinarySamples(b) :
          \A spins \in {SpinOf(x)} :
             \A en \in {energy(b, x)}, spin_en \in {energy(sp, spins)} :
                /\ en.ok
                /\ spin_en.ok
                /\ en.value = spin_en.value

\* the entries of quadratic whose bias is not zero
NonZero(quadratic) ==
    [k \in {j \in DOMAIN quadratic : quadratic[j] # Zero} |-> quadratic[k]]

---------------------------------------------------------------------------
(* The claims.                                                             *)

\* C1: the model the constructor returns holds the quadratic it was given, and
\* its adj is exactly the symmetric closure of that quadratic:
\* adj[u][v] = adj[v][u] = quadratic[(u, v)] for every key, and no other entry.
C1_AdjIsSymmetricClosure ==
    (last.op = "init" /\ last.ok) =>
        /\ models["m"].live
        /\ models["m"].quadratic = last.quadratic
        /\ AdjIsClosure(models["m"])

\* a model with a quadratic term has been constructed
C1_Witness ==
    /\ last.op = "init"
    /\ last.ok
    /\ DOMAIN last.quadratic # {}
    /\ DOMAIN models["m"].adj # {}

\* C2: with dicts and a resolvable vartype, the constructor raises exactly when
\* quadratic is malformed (unknown variable, self-loop, or a key with its
\* reverse), whatever the order in which quadratic is iterated, and then no
\* model is returned.
C2_RejectsExactlyMalformed ==
    (last.op = "init" /\ ResolveVartype(last.vartype) # "TypeError") =>
        /\ last.ok <=> ~Malformed(last.linear, last.quadratic)
        /\ ~last.ok => ~models["m"].live

\* a quadratic whose only defect is a key present with its reverse was rejected
C2_Witness ==
    /\ last.op = "init"
    /\ ~last.ok
    /\ ResolveVartype(last.vartype) # "TypeError"
    /\ \E k \in DOMAIN last.quadratic : <<k[2], k[1]>> \in DOMAIN last.quadratic
    /\ \A k \in DOMAIN last.quadratic :
          k[1] # k[2] /\ {k[1], k[2]} \subseteq DOMAIN last.linear

\* C3: change_vartype to the other vartype succeeds and returns a model of that
\* vartype with the same energy at every assignment, s_v = 2 x_v - 1, in both
\* directions.
C3_ChangeVartypePreservesEnergy ==
    [][(/\ last'.op = "change_vartype"
        /\ ResolveVartype(last'.vartype) \notin {"TypeError", models[last'.self].vartype})
       => /\ last'.ok
          /\ models'["n"].vartype = ResolveVartype(last'.vartype)
          /\ IF models[last'.self].vartype = BINARY
             THEN SameEnergy(models[last'.self], models'["n"])
             ELSE SameEnergy(models'["n"], models[last'.self])]_vars

\* a BINARY model with a non-zero quadratic bias has been converted to SPIN
C3_Witness ==
    /\ last.op = "change_vartype"
    /\ last.ok
    /\ last.self = "m"
    /\ models["m"].vartype = BINARY
    /\ models["n"].vartype = SPIN
    /\ \E k \in DOMAIN models["m"].quadratic : models["m"].quadratic[k] # Zero

\* C4: as_qubo() returns (Q, off) whose value off + sum Q[(u,v)] x_u x_v is the
\* model's energy at x (BINARY) or at s = 2x - 1 (SPIN) for every 0/1 assignment
\* x; on a BINARY model Q is the linear biases under the self-pairs together with
\* the quadratic entries, and off is the offset.
C4_AsQuboEnergy ==
    (last.op = "as_qubo") =>
        LET self == models[last.self]
            Q == last.ret.qubo
        IN  /\ last.ret.ok
            /\ \A x \in BinarySamples(self) :
                  \A sample \in {IF self.vartype = BINARY THEN x ELSE SpinOf(x)} :
                     \A en \in {energy(self, sample)} :
                        /\ en.ok
                        /\ en.value = Add(last.ret.offset, QuadraticTerms(Q, x, DOMAIN Q))
            /\ self.vartype = BINARY =>
                  /\ last.ret.offset = self.offset
                  /\ DOMAIN Q = {<<v, v>> : v \in DOMAIN self.linear}
                                   \cup DOMAIN self.quadratic
                  /\ \A v \in DOMAIN self.linear : Q[<<v, v>>] = self.linear[v]
                  /\ \A k \in DOMAIN self.quadratic : Q[k] = self.quadratic[k]

\* as_qubo() has returned on a SPIN model with a non-zero quadratic bias
C4_Witness ==
    /\ last.op = "as_qubo"
    /\ last.ret.ok
    /\ models[last.self].vartype = SPIN
    /\ \E k \in DOMAIN models[last.self].quadratic :
          models[last.self].quadratic[k] # Zero

\* C5: as_ising() returns (h, J, off) whose value off + sum h[v] s_v +
\* sum J[(u,v)] s_u s_v is the model's energy at s (SPIN) or at x = (s + 1) / 2
\* (BINARY) for every spin assignment s; on a SPIN model the triple is the
\* model's own linear, quadratic and offset.
C5_AsIsingEnergy ==
    (last.op = "as_ising") =>
        LET self == models[last.self]
            h == last.ret.linear
            J == last.ret.quadratic
        IN  /\ last.ret.ok
            /\ \A sp \in SpinSamples(self) :
                  \A sample \in {IF self.vartype = SPIN THEN sp ELSE BinaryOf(sp)} :
                     \A en \in {energy(self, sample)} :
                        /\ en.ok
                        /\ en.value = Add(Add(last.ret.offset,
                                              LinearTerms(h, sp, DOMAIN h)),
                                          QuadraticTerms(J, sp, DOMAIN J))
            /\ self.vartype = SPIN =>
                  /\ h = self.linear
                  /\ J = self.quadratic
                  /\ last.ret.offset = self.offset

\* as_ising() has returned on a BINARY model with a non-zero quadratic bias
C5_Witness ==
    /\ last.op = "as_ising"
    /\ last.ret.ok
    /\ models[last.self].vartype = BINARY
    /\ \E k \in DOMAIN models[last.self].quadratic :
          models[last.self].quadratic[k] # Zero

\* C6: after relabel_variables(mapping) succeeds, adj is exactly the symmetric
\* closure of the relabeled quadratic: adj[u][v] = adj[v][u] = quadratic[(u, v)]
\* for every key, and no other entry.
C6_AdjRebuiltByRelabel ==
    (last.op = "relabel_variables" /\ last.ok) => AdjIsClosure(models[last.self])

\* the mapping lacks a current variable, sends two of them to one label, or
\* sends one to an unhashable target
BadMapping(self, mapping) ==
    \/ \E v \in DOMAIN self.linear : v \notin DOMAIN mapping
    \/ \E v \in (DOMAIN self.linear) \cap (DOMAIN mapping) : mapping[v] = Unhashable
    \/ \E u, v \in (DOMAIN self.linear) \cap (DOMAIN mapping) :
          u # v /\ mapping[u] = mapping[v]

\* C7: relabel_variables(mapping) raises when the mapping lacks a current
\* variable, sends two current variables to the same label, or has an unhashable
\* target, and then linear, quadratic, adj, offset and vartype of the model (and
\* every other instance) are as before the call.
C7_RelabelRejectsAndKeeps ==
    [][(/\ last'.op = "relabel_variables"
        /\ BadMapping(models[last'.self], last'.mapping))
       => /\ ~last'.ok
          /\ models' = models
          /\ alias' = alias]_vars

\* a mapping of two variables to one hashable label was rejected
C7_Witness ==
    /\ last.op = "relabel_variables"
    /\ ~last.ok
    /\ DOMAIN models[last.self].linear \subseteq DOMAIN last.mapping
    /\ \A v \in DOMAIN models[last.self].linear : last.mapping[v] # Unhashable
    /\ \E u, v \in DOMAIN models[last.self].linear :
          u # v /\ last.mapping[u] = last.mapping[v]

\* the sample with sample'[mapping[v]] = sample[v], for v among keys
RECURSIVE RelabeledOver(_, _, _)
RelabeledOver(sample, mapping, keys) ==
    IF keys = {} THEN EmptyDict
    ELSE LET v == CHOOSE x \in keys : TRUE
         IN  (mapping[v] :> sample[v]) @@ RelabeledOver(sample, mapping, keys \ {v})

\* the sample with sample'[mapping[v]] = sample[v]
Relabeled(sample, mapping) == RelabeledOver(sample, mapping, DOMAIN sample)

\* C8: relabel_variables(mapping) with a mapping injective on the model's
\* variables succeeds, and the energy of the model before it at any sample is
\* the energy of the model after it at the relabeled sample; offset and vartype
\* are unchanged.
C8_RelabelPreservesEnergy ==
    [][(/\ last'.op = "relabel_variables"
        /\ ~BadMapping(models[last'.self], last'.mapping))
       => LET before == models[last'.self]
              after == models'[last'.self]
          IN  /\ last'.ok
              /\ after.offset = before.offset
              /\ after.vartype = before.vartype
              /\ \A sample \in [DOMAIN before.linear -> SampleValues] :
                    \A relabeled \in {Relabeled(sample, last'.mapping)} :
                       \A en \in {energy(before, sample)},
                          new_en \in {energy(after, relabeled)} :
                          /\ en.ok
                          /\ new_en.ok
                          /\ new_en.value = en.value]_vars

\* a model of two variables with a quadratic term was relabeled, the labels
\* changing
C8_Witness ==
    /\ last.op = "relabel_variables"
    /\ last.ok
    /\ DOMAIN models[last.self].quadratic # {}
    /\ \E v \in DOMAIN last.mapping : last.mapping[v] # v
    /\ \E u, v \in DOMAIN models[last.self].linear :
          models[last.self].linear[u] # models[last.self].linear[v]

\* C9: copy(), and change_vartype(t) with t the model's own vartype, return an
\* instance equal in value to the original; and a later relabel_variables on, or
\* write to the linear or quadratic dict of, either instance leaves the other
\* instance as it was.
C9_CopyIsIndependent ==
    [][/\ (/\ last'.op \in {"copy", "change_vartype"}
           /\ last'.ok
           /\ last'.op = "change_vartype" =>
                 ResolveVartype(last'.vartype) = models[last'.self].vartype)
          => /\ eq(models'["n"], models[last'.self])
             /\ eq(models[last'.self], models'["n"])
       /\ (/\ last'.op \in {"relabel_variables", "setitem", "delitem"}
           /\ models[Other(last'.self)].live)
          => models'[Other(last'.self)] = models[Other(last'.self)]]_vars

\* two instances equal but for linear, after a write to the linear of one
C9_Witness ==
    /\ last.op = "setitem"
    /\ models["m"].live
    /\ models["n"].live
    /\ models["m"].vartype = models["n"].vartype
    /\ models["m"].quadratic = models["n"].quadratic
    /\ models["m"].adj = models["n"].adj
    /\ models["m"].offset = models["n"].offset
    /\ models["m"].linear # models["n"].linear

\* the call that has just returned converted n, of the other vartype than m,
\* to the vartype of m
BackToVartypeOfM ==
    /\ last'.op = "change_vartype"
    /\ last'.ok
    /\ last'.self = "n"
    /\ models["n"].vartype # models["m"].vartype
    /\ ResolveVartype(last'.vartype) = models["m"].vartype

\* C10 (as claimed): converting a model to the other vartype and back gives a
\* model equal to it: same vartype, linear, quadratic and offset.
C10_RoundTripIsEqual ==
    [][BackToVartypeOfM => eq(models'["n"], models["m"])]_vars

\* C10 (amended): converting a model to the other vartype and back gives a model
\* with the same vartype, linear and offset, whose quadratic is that of the
\* model without its zero-bias entries.
C10_RoundTripDropsZeros ==
    [][BackToVartypeOfM =>
          /\ models'["n"].vartype = models["m"].vartype
          /\ models'["n"].linear = models["m"].linear
          /\ models'["n"].offset = models["m"].offset
          /\ models'["n"].quadratic = NonZero(models["m"].quadratic)]_vars

\* n is m converted and converted back, and has lost a zero-bias entry of m
C10_Witness ==
    /\ last.op = "change_vartype"
    /\ last.ok
    /\ last.self = "n"
    /\ models["n"].vartype = models["m"].vartype
    /\ models["n"].linear = models["m"].linear
    /\ \E k \in DOMAIN models["m"].quadratic :
          models["m"].quadratic[k] = Zero /\ k \notin DOMAIN models["n"].quadratic

\* what the accepted forms of a vartype stand for, "none" for any other input
AcceptedAs(vartype) ==
    CASE vartype \in {"Vartype.SPIN", "'SPIN'", "{-1, 1}"} -> SPIN
      [] vartype \in {"Vartype.BINARY", "'BINARY'", "{0, 1}"} -> BINARY
      [] OTHER -> "none"

\* C11: the constructor and change_vartype take Vartype.SPIN, 'SPIN' and {-1, 1}
\* as SPIN, and Vartype.BINARY, 'BINARY' and {0, 1} as BINARY: the model they
\* return has that vartype.  With any other vartype they raise TypeError, no
\* model is returned, and the model change_vartype was called on (like every
\* other) is as before the call.
C11_VartypeResolution ==
    [][/\ (last'.op \in {"init", "change_vartype"}
           /\ AcceptedAs(last'.vartype) = "none")
          => /\ ~last'.ok
             /\ last'.err = "TypeError"
             /\ models' = models
             /\ alias' = alias
       /\ (last'.op = "init" /\ AcceptedAs(last'.vartype) # "none")
          => /\ last'.err # "TypeError"
             /\ last'.ok => models'["m"].vartype = AcceptedAs(last'.vartype)
       /\ (last'.op = "change_vartype" /\ AcceptedAs(last'.vartype) # "none")
          => /\ last'.ok
             /\ models'["n"].vartype = AcceptedAs(last'.vartype)]_vars

\* change_vartype was called with an unrecognized string on a model that has a
\* copy, after a construction that took the name of a vartype
C11_Witness ==
    /\ last.op = "change_vartype"
    /\ last.vartype = "'my made up type'"
    /\ ~last.ok
    /\ models["m"].live
    /\ models["n"].live
    /\ models["m"].vartype # models["n"].vartype

\* C12: every instance there is after a successful construction and any calls
\* of relabel_variables (returning or raising), copy and change_vartype has
\* every variable of every quadratic key among the keys of linear, no quadratic
\* key with equal endpoints, and no two quadratic keys that are each other's
\* reverse.
C12_StructureKept ==
    \A s \in Slots :
       models[s].live =>
          \A k \in DOMAIN models[s].quadratic :
             /\ k[1] \in DOMAIN models[s].linear
             /\ k[2] \in DOMAIN models[s].linear
             /\ k[1] # k[2]
             /\ <<k[2], k[1]>> \notin DOMAIN models[s].quadratic

\* n was converted from a model with a quadratic term, and then relabeled so
\* that the key of that term is now the reverse of a key of m
C12_Witness ==
    /\ last.op = "relabel_variables"
    /\ last.ok
    /\ last.self = "n"
    /\ models["m"].live
    /\ models["n"].vartype # models["m"].vartype
    /\ \E k \in DOMAIN models["n"].quadratic :
          <<k[2], k[1]>> \in DOMAIN models["m"].quadratic

\* the call that has just returned bound the name t to the instance it returned
Rebound(t) ==
    /\ t = "n"
    /\ last'.op \in {"copy", "change_vartype"}
    /\ last'.ok

\* C13: as_ising(), as_qubo(), energy(sample), copy() and change_vartype(t),
\* returning or raising, leave linear, quadratic, adj, offset and vartype of the
\* model they are called on, and of every other instance, as they were; a step
\* that changes an instance there already is a call of relabel_variables.
C13_OnlyRelabelMutates ==
    [][/\ (last'.op \in {"as_ising", "as_qubo", "energy", "copy", "change_vartype"})
          => /\ last'.after = models[last'.self]
             /\ \A t \in Slots :
                   (models[t].live /\ ~Rebound(t)) => models'[t] = models[t]
       /\ (\E t \in Slots : models[t].live /\ ~Rebound(t) /\ models'[t] # models[t])
          => last'.op = "relabel_variables"]_vars

\* as_qubo() has returned a dict with the linear biases folded in, called on a
\* SPIN model n with a quadratic term while m holds a dict of n's value
C13_Witness ==
    /\ last.op = "as_qubo"
    /\ last.ret.ok
    /\ last.self = "n"
    /\ models["n"].vartype = SPIN
    /\ models["m"].live
    /\ models["m"].linear = models["n"].linear
    /\ \E k \in DOMAIN models["n"].quadratic : models["n"].quadratic[k] # Zero
    /\ DOMAIN last.ret.qubo # DOMAIN models["n"].quadratic

\* C14: change_vartype to the other vartype returns a model with the variables
\* of the model it is called on, those without a quadratic term too, so of the
\* same len, and whose quadratic keys are the keys of that model's quadratic
\* with a non-zero bias, each as it is oriented there.
C14_ChangeVartypeKeys ==
    [][(/\ last'.op = "change_vartype"
        /\ ResolveVartype(last'.vartype) \notin {"TypeError", models[last'.self].vartype})
       => LET self == models[last'.self]
              new == models'["n"]
          IN  /\ last'.ok
              /\ DOMAIN new.linear = DOMAIN self.linear
              /\ bqm_len(new) = bqm_len(self)
              /\ DOMAIN new.quadratic
                    = {k \in DOMAIN self.quadratic : self.quadratic[k] # Zero}]_vars

\* a BINARY model m of two variables whose only quadratic entry has bias zero
\* was converted: n has both variables and no quadratic entry
C14_Witness ==
    /\ last.op = "change_vartype"
    /\ last.ok
    /\ last.self = "m"
    /\ models["m"].vartype = BINARY
    /\ models["n"].vartype = SPIN
    /\ bqm_len(models["m"]) = 2
    /\ DOMAIN models["m"].quadratic # {}
    /\ \A k \in DOMAIN models["m"].quadratic : models["m"].quadratic[k] = Zero
    /\ bqm_len(models["n"]) = 2
    /\ DOMAIN models["n"].quadratic = {}

===========================================================================
